---- MODULE Spec2Model ----
(***************************************************************************)
(* Model of src/server.ts: an Express application that exposes one MCP     *)
(* endpoint, /mcp, backed by one McpServer with two tools and one shared   *)
(* stateless StreamableHTTPServerTransport.                                *)
(*                                                                         *)
(* Text is modelled as sequences of one-character strings, so that         *)
(* "the text contains the identifier" is a real substring test.            *)
(* JSON objects are functions from the keys that are present; a missing    *)
(* key is a key that is not in the DOMAIN.                                 *)
(***************************************************************************)
EXTENDS Integers, Sequences, FiniteSets, Bags, TLC

VARIABLES
    proc,           \* position of the start-up promise chain / the process
    connectResult,  \* outcome of server.connect(transport)
    exitCode,       \* -1 while the process runs, else the status of process.exit
    log,            \* start-up messages written with console.log / console.error
    sdkInBand,      \* how the installed SDK reports a rejected tool call
    inflight        \* bag of the requests accepted and not yet closed

vars == <<proc, connectResult, exitCode, log, sdkInBand, inflight>>

\* ------------------------------------------------------------------ bounds

\* Requests that may be open at the same time.
MaxInFlight == 2

\* ----------------------------------------------------------------- strings

PlaceholderId == <<"/", "n", "e", "x", "t", "j", "s", "/", "n", "e", "x", "t", "j", "s", "/", "v", "1", "4">>
General == <<"G", "e", "n", "e", "r", "a", "l">>
StrNextJs == <<"N", "e", "x", "t", ".", "j", "s">>
StrReact == <<"R", "e", "a", "c", "t">>
StrEmpty == <<>>
StrRouting == <<"r", "o", "u", "t", "i", "n", "g">>
StrShortId == <<"/", "r">>
StrHundred == <<"1", "0", "0">>
StrUndefined == <<"u", "n", "d", "e", "f", "i", "n", "e", "d">>
StrX == <<"x">>

\* The three literal pieces of the template literal mockDocumentation.
DocHead == <<"\n", " ", " ", " ", " ", " ", " ", "/", "/", " ", "C", "o", "n", "t", "e", "x", "t", "7", " ", "d", "o", "c", "u", "m", "e", "n", "t", "a", "t", "i", "o", "n", " ", "f", "o", "r", " ">>
DocMid == <<"\n", " ", " ", " ", " ", " ", " ", "/", "/", " ", "T", "o", "p", "i", "c", ":", " ">>
DocTail == <<"\n", " ", " ", " ", " ", " ", " ", "/", "/", " ", "E", "x", "a", "m", "p", "l", "e", " ", "c", "o", "d", "e", " ", "f", "o", "r", " ", "a", " ", "N", "e", "x", "t", ".", "j", "s", " ", "A", "p", "p", " ", "R", "o", "u", "t", "e", "r", " ", "p", "a", "g", "e", ":", "\n", " ", " ", " ", " ", " ", " ", "i", "m", "p", "o", "r", "t", " ", "{", " ", "N", "e", "x", "t", "P", "a", "g", "e", " ", "}", " ", "f", "r", "o", "m", " ", "'", "n", "e", "x", "t", "'", ";", "\n", " ", " ", " ", " ", " ", " ", "c", "o", "n", "s", "t", " ", "H", "o", "m", "e", "P", "a", "g", "e", ":", " ", "N", "e", "x", "t", "P", "a", "g", "e", " ", "=", " ", "(", ")", " ", "=", ">", " ", "{", "\n", " ", " ", " ", " ", " ", " ", " ", " ", "r", "e", "t", "u", "r", "n", " ", "<", "h", "1", ">", "H", "e", "l", "l", "o", " ", "C", "o", "n", "t", "e", "x", "t", "7", "!", "<", "/", "h", "1", ">", ";", "\n", " ", " ", " ", " ", " ", " ", "}", ";", "\n", " ", " ", " ", " ", " ", " ", "e", "x", "p", "o", "r", "t", " ", "d", "e", "f", "a", "u", "l", "t", " ", "H", "o", "m", "e", "P", "a", "g", "e", ";", "\n", " ", " ", " ", " ">>

\* String.prototype.includes
Contains(text, sub) ==
    \E i \in 1..(Len(text) - Len(sub) + 1) : SubSeq(text, i, i + Len(sub) - 1) = sub

\* -------------------------------------------------------------- JSON values

JStr(s) == [type |-> "string", chars |-> s]
\* A JSON number, kept in tenths so that 1.5 is a value: 15.
JNum(tenths) == [type |-> "number", tenths |-> tenths]
IsInteger(v) == v.type = "number" /\ v.tenths % 10 = 0
StrInvalid == <<"I", "n", "v", "a", "l", "i", "d", " ", "a", "r", "g", "u", "m", "e", "n", "t", "s">>
JNull == [type |-> "null"]

\* --------------------------------------------------------- tool schemas (zod)

\* z.string() / z.number() / .optional(), one entry per declared parameter.
resolveLibraryIdSchema ==
    [libraryName |-> [type |-> "string", optional |-> FALSE]]

\* Faulty variant: the identifier declared with .optional().
getLibraryDocsSchemaIdOptional ==
    [context7CompatibleLibraryID |-> [type |-> "string", optional |-> TRUE],
     topic |-> [type |-> "string", optional |-> TRUE],
     tokens |-> [type |-> "number", optional |-> TRUE]]

getLibraryDocsSchema ==
    [context7CompatibleLibraryID |-> [type |-> "string", optional |-> FALSE],
     topic |-> [type |-> "string", optional |-> TRUE],
     tokens |-> [type |-> "number", optional |-> TRUE]]

ToolNames == {"resolve-library-id", "get-library-docs"}

ToolSchema(name) ==
    IF name = "resolve-library-id" THEN resolveLibraryIdSchema ELSE getLibraryDocsSchema

\* A declared key passes when its value has the declared type, or when it is
\* missing and declared optional.  z.number() has no .int(): any JSON number passes.
KeyAccepted(schema, args, k) ==
    IF k \in DOMAIN args THEN args[k].type = schema[k].type ELSE schema[k].optional

\* safeParse of z.object(shape): success, and the parsed data.  z.object is not
\* strict: keys the shape does not declare are dropped, not rejected.
ParseSuccess(schema, args) == \A k \in DOMAIN schema : KeyAccepted(schema, args, k)

ParseData(schema, args) == [k \in (DOMAIN args) \cap (DOMAIN schema) |-> args[k]]

\* ------------------------------------------------------------- tool handlers

\* Faulty variant: the handler answers with the name it was given.
resolveLibraryIdEcho(params) ==
    [content |-> << [type |-> "text", text |-> params.libraryName.chars] >>]

\* The handler of resolve-library-id: a fixed text block.
resolveLibraryId(params) ==
    [content |-> << [type |-> "text", text |-> PlaceholderId] >>]

\* Faulty variant: the topic line always reads General.
TopicIgnored(params) == General

\* params.topic || 'General' : a missing topic and the empty string are both falsy.
TopicOrGeneral(params) ==
    IF "topic" \in DOMAIN params /\ params.topic.chars # << >>
    THEN params.topic.chars
    ELSE General

\* ${params.context7CompatibleLibraryID} : a missing property reads as undefined.
IdText(params) ==
    IF "context7CompatibleLibraryID" \in DOMAIN params
    THEN params.context7CompatibleLibraryID.chars
    ELSE StrUndefined

mockDocumentation(params) ==
    DocHead \o IdText(params) \o DocMid \o TopicOrGeneral(params) \o DocTail

\* The handler of get-library-docs.
getLibraryDocs(params) ==
    [content |-> << [type |-> "text", text |-> mockDocumentation(params)] >>]

ToolHandler(name, params) ==
    IF name = "resolve-library-id" THEN resolveLibraryId(params) ELSE getLibraryDocs(params)

\* --------------------------------------------------------------- envelopes

MethodNotAllowedCode == -32000
InternalErrorCode == -32603

\* Body of the 405 answers of app.get and app.delete.
MethodNotAllowedEnvelope ==
    [jsonrpc |-> "2.0",
     error |-> [code |-> MethodNotAllowedCode, message |-> "Method not allowed."],
     id |-> JNull]

\* Faulty variant: the 500 body carries a result next to its error.
InternalErrorEnvelopeWithResult ==
    [jsonrpc |-> "2.0",
     error |-> [code |-> InternalErrorCode, message |-> "Internal server error"],
     result |-> [content |-> << >>],
     id |-> JNull]

\* Body of the 500 answer of the catch branch of app.post.
InternalErrorEnvelope ==
    [jsonrpc |-> "2.0",
     error |-> [code |-> InternalErrorCode, message |-> "Internal server error"],
     id |-> JNull]

\* What the SDK answers to a tools/call whose arguments the schema rejects: a
\* JSON-RPC error with ErrorCode.InvalidParams, or (later SDK releases) a tool
\* result flagged isError.
ValidationFailure(id, inBand) ==
    IF inBand
    THEN [jsonrpc |-> "2.0", id |-> id,
          result |-> [content |-> << [type |-> "text", text |-> StrInvalid] >>,
                      isError |-> TRUE]]
    ELSE [jsonrpc |-> "2.0", id |-> id,
          error |-> [code |-> -32602, message |-> "Invalid arguments"]]

\* The handler's return value wrapped as the result of the JSON-RPC response.
ResultEnvelope(id, result) == [jsonrpc |-> "2.0", id |-> id, result |-> result]

IsEnvelope(body) == "jsonrpc" \in DOMAIN body

\* ---------------------------------------------------------------- responses

NoResponse == [status |-> 0, body |-> [nothing |-> TRUE]]

\* The default Express error handler's answer to the error body-parser passes to next().
BadRequestResponse == [status |-> 400, body |-> [html |-> "SyntaxError"]]

\* Headers (and perhaps part of the stream) written, then the transport threw.
PartialResponse == [status |-> 200, body |-> [partial |-> TRUE]]

NoCall == [tool |-> "none"]

\* tools/call as McpServer serves it: validate the arguments against the tool's
\* schema, and only then run the handler on the parsed data.
CallTool(msg, inBand) ==
    LET name   == msg.params.name
        args   == msg.params.arguments
        schema == ToolSchema(name)
    IN  IF ParseSuccess(schema, args)
        THEN [call |-> [tool |-> name, params |-> ParseData(schema, args)],
              resp |-> [status |-> 200,
                        body |-> ResultEnvelope(msg.id,
                                     ToolHandler(name, ParseData(schema, args)))]]
        ELSE [call |-> NoCall,
              resp |-> [status |-> 200, body |-> ValidationFailure(msg.id, inBand)]]

\* ------------------------------------------------------------------- inputs

RpcId == JNum(10)

\* A JSON-RPC tools/call request for tool `name` with arguments `args`.
ToolCall(name, args) ==
    [jsonrpc |-> "2.0", id |-> RpcId, method |-> "tools/call",
     params |-> [name |-> name, arguments |-> args]]

NoArguments == [k \in {} |-> JNull]

ResolveArguments ==
    { [libraryName |-> JStr(StrNextJs)],
      [libraryName |-> JStr(StrReact)],
      [libraryName |-> JNum(420)],
      [libraryName |-> JStr(StrNextJs), extra |-> JStr(StrX)],
      NoArguments }

DocsArguments ==
    { [context7CompatibleLibraryID |-> JStr(PlaceholderId)],
      [context7CompatibleLibraryID |-> JStr(PlaceholderId), topic |-> JStr(StrRouting)],
      [context7CompatibleLibraryID |-> JStr(StrShortId), topic |-> JStr(StrEmpty)],
      [context7CompatibleLibraryID |-> JStr(PlaceholderId), tokens |-> JNum(1000)],
      [context7CompatibleLibraryID |-> JStr(PlaceholderId), tokens |-> JNum(15)],
      [context7CompatibleLibraryID |-> JStr(PlaceholderId), tokens |-> JStr(StrHundred)],
      [context7CompatibleLibraryID |-> JStr(PlaceholderId), topic |-> JNum(50)],
      [context7CompatibleLibraryID |-> JStr(PlaceholderId), extra |-> JStr(StrX)],
      [context7CompatibleLibraryID |-> JNum(70)],
      [topic |-> JStr(StrRouting)],
      NoArguments }

ToolCalls ==
    { ToolCall("resolve-library-id", a) : a \in ResolveArguments }
        \cup { ToolCall("get-library-docs", a) : a \in DocsArguments }

\* The body of a request as it arrives: none, text that is not JSON, or JSON.
NoBody == [kind |-> "none"]
MalformedBody == [kind |-> "malformed"]
JsonBody(msg) == [kind |-> "json", msg |-> msg]

SampleCall == ToolCall("resolve-library-id", [libraryName |-> JStr(StrNextJs)])

Inputs ==
    ({"GET", "DELETE"} \X {NoBody, MalformedBody, JsonBody(SampleCall)})
        \cup ({"POST"} \X ({MalformedBody} \cup { JsonBody(m) : m \in ToolCalls }))

NewRequest(method, body) ==
    [method |-> method, body |-> body, phase |-> "arrived", resp |-> NoResponse,
     headersSent |-> FALSE, starts |-> 0, partial |-> FALSE, invoked |-> FALSE,
     call |-> NoCall, logged |-> FALSE]

Requests == BagToSet(inflight)

Replace(r, r2) == (inflight (-) SetToBag({r})) (+) SetToBag({r2})

\* --------------------------------------------------------------- start-up

Init ==
    /\ proc = "connecting"
    /\ connectResult = "pending"
    /\ exitCode = [exited |-> FALSE]
    /\ log = {}
    /\ sdkInBand \in BOOLEAN
    /\ inflight = EmptyBag

\* server.connect(transport) settles.
ConnectResolves ==
    /\ proc = "connecting"
    /\ connectResult' = "ok"
    /\ proc' = "settled"
    /\ UNCHANGED <<exitCode, log, sdkInBand, inflight>>

ConnectRejects ==
    /\ proc = "connecting"
    /\ connectResult' = "failed"
    /\ proc' = "settled"
    /\ UNCHANGED <<exitCode, log, sdkInBand, inflight>>

\* Faulty variant: setupServer does not await server.connect.
SetupResolvedNoAwait == TRUE

\* setupServer awaits server.connect: its promise fulfils only when connect did.
SetupResolved == connectResult = "ok"

\* .then(() => app.listen(PORT, ...)) : the endpoint starts to listen.
ThenListen ==
    /\ proc = "settled"
    /\ SetupResolved
    /\ proc' = "listening"
    /\ log' = log \cup {"MCP Context7 Server listening"}
    /\ UNCHANGED <<connectResult, exitCode, sdkInBand, inflight>>

\* app.listen throws inside the .then callback (a PORT out of range): the chain rejects.
ThenListenThrows ==
    /\ proc = "settled"
    /\ SetupResolved
    /\ proc' = "rejected"
    /\ UNCHANGED <<connectResult, exitCode, log, sdkInBand, inflight>>

\* .catch((error) => { console.error(...); process.exit(1); })
CatchSetupFailure ==
    /\ \/ proc = "settled" /\ ~SetupResolved
       \/ proc = "rejected"
    /\ log' = log \cup {"Failed to set up the server"}
    /\ exitCode' = [exited |-> TRUE, code |-> 1]
    /\ proc' = "exited"
    /\ UNCHANGED <<connectResult, sdkInBand, inflight>>

\* ---------------------------------------------------------------- requests

\* A request reaches the listening endpoint.
Accept ==
    /\ proc = "listening"
    /\ BagCardinality(inflight) < MaxInFlight
    /\ \E in \in Inputs :
          inflight' = inflight (+) SetToBag({NewRequest(in[1], in[2])})
    /\ UNCHANGED <<proc, connectResult, exitCode, log, sdkInBand>>

\* JSON.parse of the body succeeds (an absent body is left alone).
JsonParses(body) == body.kind # "malformed"

\* app.use(express.json()): runs for every method before any route.  A body that
\* is not JSON is answered 400 by Express's error handler and no route runs.
JsonMiddleware ==
    /\ \E r \in Requests :
          /\ r.phase = "arrived"
          /\ inflight' = Replace(r,
                IF JsonParses(r.body)
                THEN [r EXCEPT !.phase = "routed"]
                ELSE [r EXCEPT !.phase = "responded", !.resp = BadRequestResponse,
                               !.headersSent = TRUE, !.starts = r.starts + 1])
    /\ UNCHANGED <<proc, connectResult, exitCode, log, sdkInBand>>

MethodNotAllowedResponse == [status |-> 405, body |-> MethodNotAllowedEnvelope]

\* app.get("/mcp")
GetMcp ==
    /\ \E r \in Requests :
          /\ r.phase = "routed"
          /\ r.method = "GET"
          /\ inflight' = Replace(r,
                [r EXCEPT !.phase = "responded", !.resp = MethodNotAllowedResponse,
                          !.headersSent = TRUE, !.starts = r.starts + 1])
    /\ UNCHANGED <<proc, connectResult, exitCode, log, sdkInBand>>

\* app.delete("/mcp")
DeleteMcp ==
    /\ \E r \in Requests :
          /\ r.phase = "routed"
          /\ r.method = "DELETE"
          /\ inflight' = Replace(r,
                [r EXCEPT !.phase = "responded", !.resp = MethodNotAllowedResponse,
                          !.headersSent = TRUE, !.starts = r.starts + 1])
    /\ UNCHANGED <<proc, connectResult, exitCode, log, sdkInBand>>

\* The ways await transport.handleRequest(req, res, req.body) can end: the
\* transport answered, it threw before writing anything, or it threw after
\* the response had been started.
Outcomes == {"served", "threwEarly", "threwLate"}

HandleRequest(r, outcome) ==
    LET out == CallTool(r.body.msg, sdkInBand)
    IN  CASE outcome = "served" ->
                [r EXCEPT !.phase = "responded", !.invoked = TRUE, !.call = out.call,
                          !.resp = out.resp, !.headersSent = TRUE,
                          !.starts = r.starts + 1]
          [] outcome = "threwEarly" ->
                [r EXCEPT !.phase = "caught", !.invoked = TRUE]
          [] OTHER ->
                [r EXCEPT !.phase = "caught", !.invoked = TRUE, !.call = out.call,
                          !.resp = PartialResponse, !.headersSent = TRUE,
                          !.partial = TRUE, !.starts = r.starts + 1]

\* app.post("/mcp"), the try block.
PostMcp ==
    /\ \E r \in Requests, outcome \in Outcomes :
          /\ r.phase = "routed"
          /\ r.method = "POST"
          /\ inflight' = Replace(r, HandleRequest(r, outcome))
    /\ UNCHANGED <<proc, connectResult, exitCode, log, sdkInBand>>

\* Faulty variant: the catch block answers without looking at res.headersSent.
CatchSendsAlways(r) == TRUE

\* if (!res.headersSent)
CatchSends(r) == ~r.headersSent

InternalErrorResponse == [status |-> 500, body |-> InternalErrorEnvelope]

\* app.post("/mcp"), the catch block: log, and answer 500 unless headers went out.
PostMcpCatch ==
    /\ \E r \in Requests :
          /\ r.phase = "caught"
          /\ inflight' = Replace(r,
                IF CatchSends(r)
                THEN [r EXCEPT !.phase = "responded", !.logged = TRUE,
                               !.resp = InternalErrorResponse, !.headersSent = TRUE,
                               !.starts = r.starts + 1]
                ELSE [r EXCEPT !.phase = "responded", !.logged = TRUE])
    /\ UNCHANGED <<proc, connectResult, exitCode, log, sdkInBand>>

\* The exchange is over and the request object is dropped.
Close ==
    /\ \E r \in Requests :
          /\ r.phase = "responded"
          /\ inflight' = inflight (-) SetToBag({r})
    /\ UNCHANGED <<proc, connectResult, exitCode, log, sdkInBand>>

Next ==
    \/ ConnectResolves
    \/ ConnectRejects
    \/ ThenListen
    \/ ThenListenThrows
    \/ CatchSetupFailure
    \/ Accept
    \/ JsonMiddleware
    \/ GetMcp
    \/ DeleteMcp
    \/ PostMcp
    \/ PostMcpCatch
    \/ Close

Spec == Init /\ [][Next]_vars

\* The .catch callback is a promise reaction: once the chain has rejected it runs.
FairSpec == Spec /\ WF_vars(CatchSetupFailure)

\* ------------------------------------------------------------------ claims

Responded(r) == r.phase = "responded"

\* The transport answered the request itself (no fault reached the catch block).
Served(r) == Responded(r) /\ r.invoked /\ ~r.logged

IsToolCall(r, name) ==
    /\ r.method = "POST"
    /\ r.body.kind = "json"
    /\ r.body.msg.params.name = name

Arguments(r) == r.body.msg.params.arguments

HasResult(body) == "result" \in DOMAIN body
HasError(body) == "error" \in DOMAIN body

\* A result that is not flagged isError.
IsSuccess(body) ==
    /\ IsEnvelope(body)
    /\ HasResult(body)
    /\ ~("isError" \in DOMAIN body.result /\ body.result.isError)

\* An invalid-params error, or a result flagged isError.
IsValidationError(body) ==
    /\ IsEnvelope(body)
    /\ \/ HasError(body) /\ body.error.code = -32602
       \/ HasResult(body) /\ "isError" \in DOMAIN body.result /\ body.result.isError

\* C1: every GET or DELETE request to /mcp, whatever its body, is answered 405
\* with the method-not-allowed envelope, and transport.handleRequest is never
\* invoked for it.
C1_GetDeleteAlways405 ==
    \A r \in Requests :
        (r.method \in {"GET", "DELETE"}) =>
            /\ ~r.invoked
            /\ r.call = NoCall
            /\ Responded(r) => r.resp = MethodNotAllowedResponse

\* C2: a POST whose body is not JSON is answered with the internal-error
\* envelope (code -32603) and status 500, and the process keeps listening.
C2_MalformedPostYieldsInternalError ==
    \A r \in Requests :
        (r.method = "POST" /\ r.body.kind = "malformed") =>
            /\ proc = "listening"
            /\ Responded(r) => r.resp = InternalErrorResponse

C4_Safety ==
    /\ proc = "listening" => connectResult = "ok"
    /\ inflight # EmptyBag => proc = "listening"
    /\ connectResult = "failed" =>
          /\ proc \in {"settled", "exited"}
          /\ "MCP Context7 Server listening" \notin log
    /\ proc = "exited" =>
          /\ exitCode.exited
          /\ exitCode.code # 0
          /\ "Failed to set up the server" \in log

\* C4: the endpoint listens only after server.connect succeeded; when connect
\* fails the endpoint never listens, no request is accepted, and the process
\* ends up exited with a non-zero status and the failure logged.
C4_StartupOrdering ==
    /\ []C4_Safety
    /\ (connectResult = "failed") ~> (proc = "exited")

C4_Witness == connectResult = "failed" /\ proc = "exited"

MissingId(r) ==
    /\ IsToolCall(r, "get-library-docs")
    /\ "context7CompatibleLibraryID" \notin DOMAIN Arguments(r)

\* C5: a get-library-docs call without context7CompatibleLibraryID never runs
\* the handler and never gets a successful response; the transport's answer to
\* it is a validation error.
C5_MissingIdRejected ==
    \A r \in Requests :
        MissingId(r) =>
            /\ r.call = NoCall
            /\ ~IsSuccess(r.resp.body)
            /\ Served(r) => IsValidationError(r.resp.body)

C5_Witness == \E r \in Requests : MissingId(r) /\ Served(r)

\* The parameters each operation declares in the specification.
DeclaredKeys(name) ==
    IF name = "resolve-library-id"
    THEN {"libraryName"}
    ELSE {"context7CompatibleLibraryID", "topic", "tokens"}

\* C6: the handler of either tool runs only for calls whose arguments match
\* the declared schema exactly: no undeclared parameter, strings where strings
\* are declared, and an integer for tokens.
C6_HandlerOnlyOnExactSchema ==
    \A r \in Requests :
        (r.call # NoCall) =>
            /\ DOMAIN Arguments(r) \subseteq DeclaredKeys(r.call.tool)
            /\ \A k \in DOMAIN Arguments(r) \ {"tokens"} : Arguments(r)[k].type = "string"
            /\ "tokens" \in DOMAIN Arguments(r) => IsInteger(Arguments(r).tokens)

ValidResolve(r) ==
    /\ IsToolCall(r, "resolve-library-id")
    /\ "libraryName" \in DOMAIN Arguments(r)
    /\ Arguments(r).libraryName.type = "string"

\* C7: the answer to every valid resolve-library-id call has no error field and
\* exactly one text block, whose text is "/nextjs/nextjs/v14" whatever the
\* libraryName.
C7_ResolveReturnsPlaceholder ==
    \A r \in Requests :
        (ValidResolve(r) /\ Served(r)) =>
            /\ r.resp.status = 200
            /\ HasResult(r.resp.body)
            /\ ~HasError(r.resp.body)
            /\ r.resp.body.result.content = << [type |-> "text", text |-> PlaceholderId] >>

C7_Witness ==
    \E r \in Requests :
        /\ ValidResolve(r)
        /\ Served(r)
        /\ Arguments(r).libraryName.chars = StrReact

ValidDocs(r) ==
    /\ IsToolCall(r, "get-library-docs")
    /\ "context7CompatibleLibraryID" \in DOMAIN Arguments(r)
    /\ Arguments(r).context7CompatibleLibraryID.type = "string"
    /\ "topic" \in DOMAIN Arguments(r) => Arguments(r).topic.type = "string"
    /\ "tokens" \in DOMAIN Arguments(r) => Arguments(r).tokens.type = "number"

\* C8: the answer to every valid get-library-docs call is one non-empty text
\* block that contains the given identifier and, when a topic is given, the
\* topic; a call with the identifier alone succeeds too.
C8_DocsTextContainsIdAndTopic ==
    \A r \in Requests :
        (ValidDocs(r) /\ Served(r)) =>
            /\ HasResult(r.resp.body)
            /\ ~HasError(r.resp.body)
            /\ Len(r.resp.body.result.content) = 1
            /\ r.resp.body.result.content[1].type = "text"
            /\ r.resp.body.result.content[1].text # << >>
            /\ Contains(r.resp.body.result.content[1].text,
                        Arguments(r).context7CompatibleLibraryID.chars)
            /\ "topic" \in DOMAIN Arguments(r) =>
                  Contains(r.resp.body.result.content[1].text, Arguments(r).topic.chars)

C8_Witness ==
    /\ \E r \in Requests :
          /\ ValidDocs(r) /\ Served(r)
          /\ "topic" \in DOMAIN Arguments(r)
          /\ Arguments(r).topic.chars = StrRouting
    /\ \E r \in Requests :
          /\ ValidDocs(r) /\ Served(r)
          /\ DOMAIN Arguments(r) = {"context7CompatibleLibraryID"}

\* C9: every response envelope sent, on the dispatch path, the 405 path and
\* the 500 path alike, carries a result or an error and never both.
C9_ExactlyOneOfResultError ==
    \A r \in Requests :
        IsEnvelope(r.resp.body) => (HasResult(r.resp.body) # HasError(r.resp.body))

C9_Witness ==
    /\ \E r \in Requests : r.resp = InternalErrorResponse
    /\ \E r \in Requests : Served(r) /\ HasResult(r.resp.body)

====
